---- MODULE Spec2Model ----
(***************************************************************************)
(* Vero backend (src/index.js): GET /health and POST /detect.              *)
(*                                                                         *)
(* JavaScript strings are sequences of one-character strings, so that      *)
(* trim(), slice(), toLowerCase() and template concatenation are computed  *)
(* as the runtime computes them.  JavaScript values are tagged records.    *)
(***************************************************************************)
EXTENDS Integers, Sequences, FiniteSets, TLC

VARIABLES
    env,            \* process.env: the four variables the program reads
    sdkResponses,   \* the installed SDK offers openai.responses.create
    openaiClient,   \* the module-level client singleton (line 29)
    fsFiles,        \* paths existing under uploads/
    now,            \* the value Date.now() returns; the clock never runs backwards
    reqCount,       \* POST /detect requests received so far
    pc,             \* position of the request in flight
    reqIn,          \* what the client sent in the request in flight
    reqFile,        \* req.file as the upload layer left it
    filePath,       \* the handler's local filePath
    startedAt,      \* the handler's local startedAt
    request_id,     \* the handler's local request_id
    parsed,         \* the handler's local parsed
    confidence,     \* the handler's local confidence
    caught,         \* the catch block's err
    storedPath,     \* path the upload layer stored this request's file at
    arrivedAt,      \* Date.now() when the request reached the server
    calls,          \* external inference calls made for this request
    sent,           \* payloads handed to the inference API for this request
    replies,        \* replies written for this request
    escaped,        \* an exception left the handler's promise unhandled
    healthLog,      \* GET /health replies seen, each with the configuration behind it
    restarts        \* restarts of the process under another configuration

vars == <<env, sdkResponses, openaiClient, fsFiles, now, reqCount, pc, reqIn,
          reqFile, filePath, startedAt, request_id, parsed, confidence, caught,
          storedPath, arrivedAt,
          calls, sent, replies, escaped, healthLog, restarts>>

(***************************************************************************)
(* Bounds of the model.                                                    *)
(***************************************************************************)
MaxRequests == 1
MaxDelay == 1
MaxRestarts == 1

(***************************************************************************)
(* JavaScript values.                                                      *)
(***************************************************************************)
Undefined == [t |-> "undefined"]
Null == [t |-> "null"]
NaN == [t |-> "nan"]
Bool(b) == [t |-> "boolean", b |-> b]
Num(n) == [t |-> "number", n |-> n]
Str(s) == [t |-> "string", s |-> s]
Obj(f) == [t |-> "object", o |-> f]
Arr(a) == [t |-> "array", a |-> a]

\* A string holding model output: prose, a JSON document kept as the value it
\* denotes, prose.  NoDoc marks a text with no JSON document in it.
NoDoc == [t |-> "none"]
Text(pre, doc, post) == [t |-> "text", pre |-> pre, doc |-> doc, post |-> post]

\* typeof x === "string"
IsString(x) == x.t \in {"string", "text"}

\* an exception in flight: err.message and err.status
Thrown(m, s) == [t |-> "throw", message |-> m, status |-> s]
IsThrown(x) == x.t = "throw"

\* ToBoolean: the test behind !x, x || y and x ? a : b
Truthy(x) ==
    CASE x.t = "undefined" -> FALSE
      [] x.t = "null" -> FALSE
      [] x.t = "nan" -> FALSE
      [] x.t = "boolean" -> x.b
      [] x.t = "number" -> x.n # 0
      [] x.t = "string" -> Len(x.s) > 0
      [] x.t = "text" -> ~(x.pre = << >> /\ x.doc.t = "none" /\ x.post = << >>)
      [] OTHER -> TRUE

\* a || b
Or(a, b) == IF Truthy(a) THEN a ELSE b

\* o.key for a value produced by JSON.parse (own properties only)
Get(o, key) ==
    IF o.t = "object" /\ key \in DOMAIN o.o THEN o.o[key] ELSE Undefined

WhiteSpace == {" ", "\t", "\n"}

RECURSIVE TrimStart(_)
TrimStart(s) ==
    IF s # << >> /\ Head(s) \in WhiteSpace THEN TrimStart(Tail(s)) ELSE s

RECURSIVE TrimEnd(_)
TrimEnd(s) ==
    IF s # << >> /\ s[Len(s)] \in WhiteSpace
    THEN TrimEnd(SubSeq(s, 1, Len(s) - 1))
    ELSE s

\* String.prototype.trim
Trim(s) == TrimEnd(TrimStart(s))

Min(a, b) == IF a < b THEN a ELSE b
Max(a, b) == IF a > b THEN a ELSE b

\* String.prototype.slice(start, end), negative indices counted from the end
Slice(s, start, end) ==
    LET from == IF start < 0 THEN Max(Len(s) + start, 0) ELSE Min(start, Len(s))
        to == IF end < 0 THEN Max(Len(s) + end, 0) ELSE Min(end, Len(s))
    IN SubSeq(s, from + 1, to)

\* String.prototype.slice(start)
SliceFrom(s, start) == Slice(s, start, Len(s))

UpperCase == <<"A","B","C","D","E","F","G","H","I","J","K","L","M",
               "N","O","P","Q","R","S","T","U","V","W","X","Y","Z">>
LowerCase == <<"a","b","c","d","e","f","g","h","i","j","k","l","m",
               "n","o","p","q","r","s","t","u","v","w","x","y","z">>

\* String.prototype.toLowerCase
ToLowerCase(s) ==
    [i \in 1..Len(s) |->
        IF \E k \in 1..Len(UpperCase) : UpperCase[k] = s[i]
        THEN LowerCase[CHOOSE k \in 1..Len(UpperCase) : UpperCase[k] = s[i]]
        ELSE s[i]]

Digits == <<"0","1","2","3","4","5","6","7","8","9">>
IsDigit(c) == \E k \in 1..Len(Digits) : Digits[k] = c
DigitVal(c) == (CHOOSE k \in 1..Len(Digits) : Digits[k] = c) - 1

RECURSIVE DigitsValue(_)
DigitsValue(s) ==
    IF s = << >> THEN 0
    ELSE 10 * DigitsValue(SubSeq(s, 1, Len(s) - 1)) + DigitVal(s[Len(s)])

AllDigits(s) == s # << >> /\ \A i \in 1..Len(s) : IsDigit(s[i])

\* Number(string): decimal integer literals with an optional sign; the empty
\* or blank string is 0; every other text of the model is NaN
StringToNumber(s) ==
    LET t == Trim(s)
    IN CASE t = << >> -> Num(0)
         [] AllDigits(t) -> Num(DigitsValue(t))
         [] Head(t) = "-" /\ AllDigits(Tail(t)) -> Num(0 - DigitsValue(Tail(t)))
         [] Head(t) = "+" /\ AllDigits(Tail(t)) -> Num(DigitsValue(Tail(t)))
         [] OTHER -> NaN

RECURSIVE NatToString(_)
NatToString(n) ==
    IF n < 10 THEN <<Digits[n + 1]>>
    ELSE NatToString(n \div 10) \o <<Digits[(n % 10) + 1]>>

\* Number.prototype.toString for the integers of the model
NumberToString(n) == IF n < 0 THEN <<"-">> \o NatToString(0 - n) ELSE NatToString(n)

ObjectObject == <<"[","o","b","j","e","c","t"," ","O","b","j","e","c","t","]">>
CannotConvert == <<"C","a","n","n","o","t"," ","c","o","n","v","e","r","t"," ","o",
     "b","j","e","c","t"," ","t","o"," ","p","r","i","m","i","t","i",
     "v","e"," ","v","a","l","u","e">>

\* String(x) of a value produced by JSON.parse: a Str, or a Thrown.
\* A plain object converts through Object.prototype.toString unless it has an
\* own "toString" property, which JSON can only make a non-callable value:
\* OrdinaryToPrimitive then finds no primitive and throws a TypeError.
RECURSIVE ToStringJS(_)
RECURSIVE JoinJS(_)
ToStringJS(x) ==
    CASE x.t = "undefined" -> Str(<<"u","n","d","e","f","i","n","e","d">>)
      [] x.t = "null" -> Str(<<"n","u","l","l">>)
      [] x.t = "nan" -> Str(<<"N","a","N">>)
      [] x.t = "boolean" -> IF x.b THEN Str(<<"t","r","u","e">>) ELSE Str(<<"f","a","l","s","e">>)
      [] x.t = "number" -> Str(NumberToString(x.n))
      [] x.t = "string" -> x
      [] x.t = "array" -> JoinJS(x.a)
      [] x.t = "object" ->
            IF "toString" \in DOMAIN x.o
            THEN Thrown(Str(CannotConvert), Undefined)
            ELSE Str(ObjectObject)
      [] OTHER -> x

\* Array.prototype.join(","): null and undefined elements are empty
JoinJS(a) ==
    IF a = << >> THEN Str(<< >>)
    ELSE LET h == IF Head(a).t \in {"null", "undefined"}
                  THEN Str(<< >>)
                  ELSE ToStringJS(Head(a))
             r == JoinJS(Tail(a))
         IN CASE IsThrown(h) -> h
              [] Len(a) = 1 -> h
              [] IsThrown(r) -> r
              [] OTHER -> Str(h.s \o <<",">> \o r.s)

\* Number(x) of a value produced by JSON.parse: a Num, NaN, or a Thrown
ToNumber(x) ==
    CASE x.t = "undefined" -> NaN
      [] x.t = "null" -> Num(0)
      [] x.t = "nan" -> NaN
      [] x.t = "boolean" -> IF x.b THEN Num(1) ELSE Num(0)
      [] x.t = "number" -> x
      [] x.t = "string" -> StringToNumber(x.s)
      [] OTHER ->
            LET s == ToStringJS(x)
            IN IF IsThrown(s) THEN s ELSE StringToNumber(s.s)

(***************************************************************************)
(* String literals of the program.                                         *)
(***************************************************************************)
NotDetectable == <<"N","o","t"," ","D","e","t","e","c","t","a","b","l","e"," ","B",
     "y"," ","V","e","r","o">>
AIDetected == <<"A","I"," ","D","e","t","e","c","t","e","d"," ","b","y"," ","V",
     "e","r","o">>
ManipulationDetected == <<"M","a","n","i","p","u","l","a","t","i","o","n"," ","D","e","t",
     "e","c","t","e","d"," ","b","y"," ","V","e","r","o">>
Verified == <<"V","e","r","i","f","i","e","d"," ","b","y"," ","V","e","r","o">>
AIGenerated == <<"A","I"," ","G","e","n","e","r","a","t","e","d">>
Manipulated == <<"M","a","n","i","p","u","l","a","t","e","d">>
RealPhotograph == <<"R","e","a","l"," ","P","h","o","t","o","g","r","a","p","h">>
NoImageProvided == <<"N","o"," ","i","m","a","g","e"," ","f","i","l","e"," ","w","a",
     "s"," ","p","r","o","v","i","d","e","d",".">>
MissingKeyWhy == <<"S","e","r","v","e","r"," ","i","s"," ","m","i","s","s","i","n",
     "g"," ","O","P","E","N","A","I","_","A","P","I","_","K","E","Y",
     " ","(","c","h","e","c","k"," ",".","e","n","v",".","l","o","c",
     "a","l"," ","o","r"," ","R","e","n","d","e","r"," ","e","n","v",
     " ","v","a","r","s",")",".">>
UnsupportedPrefix == <<"U","n","s","u","p","p","o","r","t","e","d"," ","i","m","a","g",
     "e"," ","t","y","p","e",":"," ">>
UnsupportedSuffix == <<"."," ","U","s","e"," ","j","p","g",","," ","j","p","e","g",",",
     " ","p","n","g",","," ","g","i","f",","," ","o","r"," ","w","e",
     "b","p",".">>
LowConfidenceWhy == <<"N","o","t"," ","D","e","t","e","c","t","a","b","l","e"," ","B",
     "y"," ","V","e","r","o"," ","(","c","o","n","f","i","d","e","n",
     "c","e"," ","u","n","d","e","r"," ","7","0","%",")",".">>
FallbackReason == <<"V","e","r","o"," ","d","e","t","e","c","t","e","d"," ","s","t",
     "r","o","n","g"," ","v","i","s","u","a","l"," ","s","i","g","n",
     "a","l","s"," ","c","o","n","s","i","s","t","e","n","t"," ","w",
     "i","t","h"," ","t","h","i","s"," ","c","l","a","s","s","i","f",
     "i","c","a","t","i","o","n",".">>
InternalErrorWhy == <<"A","n"," ","i","n","t","e","r","n","a","l"," ","e","r","r","o",
     "r"," ","o","c","c","u","r","r","e","d"," ","d","u","r","i","n",
     "g"," ","a","n","a","l","y","s","i","s",".">>
UnknownError == <<"U","n","k","n","o","w","n"," ","e","r","r","o","r">>
NoTextOutput == <<"O","p","e","n","A","I"," ","r","e","t","u","r","n","e","d"," ",
     "n","o"," ","t","e","x","t"," ","o","u","t","p","u","t">>
NoMessageContent == <<"O","p","e","n","A","I"," ","r","e","t","u","r","n","e","d"," ",
     "n","o"," ","m","e","s","s","a","g","e"," ","c","o","n","t","e",
     "n","t">>
NonJsonOutput == <<"M","o","d","e","l"," ","r","e","t","u","r","n","e","d"," ","n",
     "o","n"," ","J","S","O","N"," ","o","u","t","p","u","t">>
OutputTextType == <<"o","u","t","p","u","t","_","t","e","x","t">>
IdPrefix == <<"v","e","r","o","_">>

\* the set behind `allowed`
allowed ==
    { <<"i","m","a","g","e","/","j","p","e","g">>, <<"i","m","a","g","e","/","j","p","g">>, <<"i","m","a","g","e","/","p","n","g">>, <<"i","m","a","g","e","/","g","i","f">>, <<"i","m","a","g","e","/","w","e","b","p">> }

ConfidenceThreshold == 70
WhyMaxLen == 200
KeyPreviewHead == 7
KeyPreviewTail == 4

(***************************************************************************)
(* Configuration.                                                          *)
(***************************************************************************)
\* process.env.OPENAI_API_KEY || process.env.OPENAI_KEY ||
\* process.env.OPENAI_TOKEN || "", trimmed
getApiKey(e) ==
    Trim(Or(Or(Or(e.OPENAI_API_KEY, e.OPENAI_KEY), e.OPENAI_TOKEN), Str(<< >>)).s)

\* the flag read as if (process.env.DEBUG_VERO): any non-empty value enables it
DebugOnTruthy(e) == Truthy(e.DEBUG_VERO)

\* process.env.DEBUG_VERO === "1"
DebugOn(e) == e.DEBUG_VERO = Str(<<"1">>)

\* the client getOpenAI() returns: null without a key, else the singleton,
\* constructed on first use
getOpenAI(e, client) ==
    LET key == getApiKey(e)
    IN IF key = << >> THEN Null
       ELSE IF client = Null THEN Obj([apiKey |-> Str(key)])
       ELSE client

\* the singleton after getOpenAI()
ClientAfter(e, client) ==
    IF getApiKey(e) = << >> THEN client ELSE getOpenAI(e, client)

EnvLocal == <<".","e","n","v",".","l","o","c","a","l">>

\* the body GET /health sends
HealthBody(e, files) ==
    LET key == getApiKey(e)
    IN [ok |-> Bool(TRUE),
        hasKey |-> Bool(key # << >>),
        keyPreview |->
            IF key # << >>
            THEN Str(Slice(key, 0, KeyPreviewHead) \o <<".",".",".">>
                     \o SliceFrom(key, 0 - KeyPreviewTail))
            ELSE Null,
        debug |-> Bool(DebugOn(e)),
        envLocalLoaded |-> Bool(EnvLocal \in files)]

(***************************************************************************)
(* Reading the vendor's answer.                                            *)
(***************************************************************************)
\* text.trim() is non-empty
NonBlank(x) ==
    IF x.t = "text"
    THEN ~(Trim(x.pre) = << >> /\ x.doc.t = "none" /\ Trim(x.post) = << >>)
    ELSE Trim(x.s) # << >>

\* out.flatMap((o) => (Array.isArray(o.content) ? o.content : []))
RECURSIVE FlatContent(_)
FlatContent(out) ==
    IF out = << >> THEN << >>
    ELSE LET c == Get(Head(out), "content")
         IN (IF c.t = "array" THEN c.a ELSE << >>) \o FlatContent(Tail(out))

\* flat.find((c) => c.type === "output_text" && typeof c.text === "string")?.text
FindOutputText(flat) ==
    LET hit(i) == Get(flat[i], "type") = Str(OutputTextType)
                  /\ IsString(Get(flat[i], "text"))
    IN IF \E i \in 1..Len(flat) : hit(i)
       THEN Get(flat[CHOOSE i \in 1..Len(flat) :
                        hit(i) /\ \A j \in 1..(i - 1) : ~hit(j)], "text")
       ELSE Undefined

pickOutputText(resp) ==
    IF ~Truthy(resp) THEN Null
    ELSE IF IsString(Get(resp, "output_text")) /\ NonBlank(Get(resp, "output_text"))
    THEN Get(resp, "output_text")
    ELSE LET out == Get(resp, "output")
             txt == IF out.t = "array" THEN FindOutputText(FlatContent(out.a))
                    ELSE Undefined
         IN IF out.t = "array" /\ Truthy(txt) /\ NonBlank(txt) THEN txt ELSE Null

\* resp?.choices?.[0]?.message?.content
ChatContent(resp) ==
    LET choices == Get(resp, "choices")
        first == IF choices.t = "array" /\ Len(choices.a) > 0
                 THEN choices.a[1] ELSE Undefined
    IN Get(Get(first, "message"), "content")

HasChar(s, c) == \E i \in 1..Len(s) : s[i] = c

\* JSON.parse(trimmed): the document when nothing but white space surrounds
\* it, else the parser's SyntaxError
JSONParse(x) ==
    IF x.doc.t # "none" /\ Trim(x.pre) = << >> /\ Trim(x.post) = << >>
    THEN x.doc
    ELSE Thrown(Str(<<"U","n","e","x","p","e","c","t","e","d"," ","t","o","k","e","n">>), Undefined)

\* trimmed.match(/\{[\s\S]*\}/) followed by JSON.parse(match[0]): the match
\* runs from the first "{" to the last "}" of the text, so it is the document
\* exactly when the document is an object and the prose before it has no "{"
\* and the prose after it no "}"; any wider or narrower match is not JSON
MatchParse(x) ==
    IF x.doc.t = "object" /\ ~HasChar(x.pre, "{") /\ ~HasChar(x.post, "}")
    THEN x.doc
    ELSE Null

safeJsonParse(text) ==
    IF ~Truthy(text) THEN Null
    ELSE LET direct == JSONParse(text)
         IN IF ~IsThrown(direct) THEN direct ELSE MatchParse(text)

(***************************************************************************)
(* The verdict: lines 210-233.                                             *)
(***************************************************************************)
\* Number(parsed.confidence_raw) || 0
Coerce(p) ==
    LET n == ToNumber(Get(p, "confidence_raw"))
    IN IF IsThrown(n) THEN n ELSE Or(n, Num(0))

\* result, for the parsed value p and the coerced confidence c
MapResult(p, c) ==
    IF c.n >= ConfidenceThreshold
    THEN CASE Get(p, "classification") = Str(AIGenerated) -> AIDetected
           [] Get(p, "classification") = Str(Manipulated) -> ManipulationDetected
           [] Get(p, "classification") = Str(RealPhotograph) -> Verified
           [] OTHER -> NotDetectable
    ELSE NotDetectable

\* the why of the 200 reply: a Str, or the Thrown of String(parsed.reason)
WhyOf(p, c) ==
    IF c.n < ConfidenceThreshold
    THEN Str(LowConfidenceWhy)
    ELSE LET s == ToStringJS(Or(Get(p, "reason"), Str(FallbackReason)))
         IN IF IsThrown(s) THEN s ELSE Str(Slice(s.s, 0, WhyMaxLen))

\* the text of the answer and its parse, or the Error the handler throws
Extract(resp, useResponsesApi) ==
    LET textOutput == IF useResponsesApi THEN pickOutputText(resp)
                      ELSE ChatContent(resp)
        p == safeJsonParse(textOutput)
    IN IF ~Truthy(textOutput)
       THEN Thrown(Str(IF useResponsesApi THEN NoTextOutput ELSE NoMessageContent),
                   Undefined)
       ELSE IF ~Truthy(p) THEN Thrown(Str(NonJsonOutput), Undefined)
       ELSE p

(***************************************************************************)
(* Replies.                                                                *)
(***************************************************************************)
Reply(status, body) == [status |-> status, body |-> body]

Envelope(result, conf, why, rid, ms) ==
    [result |-> Str(result), confidence |-> conf, why |-> why,
     request_id |-> rid, processing_ms |-> Num(ms)]

\* `vero_${Date.now()}_${Math.random().toString(16).slice(2)}`
RequestId(t, rand) == Str(IdPrefix \o NumberToString(t) \o <<"_">> \o rand)

\* the reply of the framework's final error handler to an error the upload
\* layer passes to next(), the app registering no error middleware: status 500
\* and an HTML page (the status text, or the stack outside production), no
\* JSON envelope
DefaultErrorReply == Reply(500, [html |-> Str(<<"I","n","t","e","r","n","a","l"," ","S","e","r","v","e","r"," ",
     "E","r","r","o","r">>)])

UploadPath(n) == <<"u","p","l","o","a","d","s","/">> \o NumberToString(n)

\* the catch block's reply body
CatchBody(err, rid, ms) ==
    LET msg == IF Truthy(err.message) THEN ToStringJS(err.message)
               ELSE Str(UnknownError)
        status == Or(err.status, Null)
        base == Envelope(NotDetectable, Num(0), Str(InternalErrorWhy), rid, ms)
    IN IF DebugOn(env)
       THEN base @@ [debug |-> Obj([message |-> msg, status |-> status])]
       ELSE base

\* The catch block, lines 237-264, entered with error err, the handler's
\* filePath fp and the directory contents files.  unlinkSync either removes
\* the file or throws; a throw here leaves the async handler's promise
\* rejected with nothing to handle it, and no reply is written.
Catch(err, fp, files, rid, sAt) ==
    LET send == /\ replies' = Append(replies, Reply(500, CatchBody(err, rid, now' - sAt)))
                /\ escaped' = FALSE
                /\ pc' = "done"
    IN /\ caught' = err
       /\ IF Truthy(fp) /\ fp.s \in files
          THEN \/ fsFiles' = files \ {fp.s} /\ send
               \/ /\ fsFiles' = files
                  /\ replies' = replies
                  /\ escaped' = TRUE
                  /\ pc' = "escaped"
          ELSE fsFiles' = files /\ send

(***************************************************************************)
(* Inputs: configurations, uploads, vendor answers.                        *)
(***************************************************************************)
Key1 == <<"s","k","-","p","r","o","j","-","A","A","A","A","1","1","1","1",
     "b","b","b","b">>
Key2 == <<"s","k","-","p","r","o","j","-","C","C","C","C","2","2","2","2",
     "d","d","d","d">>
\* differs from Key1 only between its first 7 and its last 4 characters
Key3 == <<"s","k","-","p","r","o","j","-","Z","Z","Z","Z","1","1","1","1",
     "b","b","b","b">>

MkEnv(k1, k2, k3, d) ==
    [OPENAI_API_KEY |-> k1, OPENAI_KEY |-> k2, OPENAI_TOKEN |-> k3, DEBUG_VERO |-> d]

DebugValues == {Undefined, Str(<<"1">>), Str(<<"0">>)}

\* configurations of the server that handles uploads
DetectEnvs ==
    { MkEnv(k[1], k[2], k[3], d) :
        k \in { <<Undefined, Undefined, Undefined>>,
                <<Str(<<" ">>), Str(Key2), Undefined>>,
                <<Str(Key1 \o <<" ">>), Undefined, Undefined>>,
                <<Undefined, Undefined, Str(Key2)>> },
        d \in DebugValues }

\* configurations compared through GET /health
HealthEnvs ==
    { MkEnv(k1, k2, k3, d) :
        k1 \in {Undefined, Str(<< >>), Str(<<" ">>), Str(Key1), Str(<<" ">> \o Key2)},
        k2 \in {Undefined, Str(Key2), Str(Key3)},
        k3 \in {Undefined, Str(Key1)},
        d \in DebugValues }

Mimes ==
    allowed \cup
    { <<"I","M","A","G","E","/","P","N","G">>, <<"I","m","a","g","e","/","J","p","e","g">>, <<"i","m","a","g","e","/","b","m","p">>, <<"a","p","p","l","i","c","a","t","i","o","n","/","p","d","f">>, << >> }

\* upload sizes in MB
Sizes == {1, 13}

\* what a client can send to POST /detect
RequestInputs ==
    { [kind |-> "malformed"], [kind |-> "nofile"] }
    \cup { [kind |-> "file", mimetype |-> m, size |-> 1] : m \in Mimes }
    \cup { [kind |-> "file", mimetype |-> m, size |-> s] :
            m \in { <<"i","m","a","g","e","/","p","n","g">>, <<"i","m","a","g","e","/","b","m","p">> }, s \in Sizes }

\* Math.random().toString(16).slice(2)
RandomHex == { <<"8","f","3","a">>, <<"c","4","1">> }

Absent == [t |-> "absent"]

Field(name, x) == IF x = Absent THEN << >> ELSE (name :> x)

\* the object {classification, confidence_raw, reason}, absent fields left out
MkDoc(c, k, r) ==
    Obj(Field("classification", c) @@ Field("confidence_raw", k) @@ Field("reason", r))

Classifications ==
    { Absent, Str(AIGenerated), Str(Manipulated), Str(RealPhotograph),
      Str(<<"a","i"," ","g","e","n","e","r","a","t","e","d">>), Num(1) }

BadObject == Obj([toString |-> Num(1)])

ConfidenceRaws ==
    { Absent, Null, Bool(TRUE), Num(0 - 5), Num(0), Num(69), Num(70), Num(85),
      Num(100), Num(150), Str(<<"8","5">>), Str(<<" ","7","0"," ">>), Str(<<"h","i","g","h">>),
      Arr(<<Num(90)>>), Arr(<<Num(9), Num(0)>>), Obj([max |-> Num(100)]), BadObject }

ShortReason == <<"v","i","s","i","b","l","e"," ","a","r","t","i","f","a","c","t",
     "s">>
Reason200 == [i \in 1..WhyMaxLen |-> "x"]
Reason201 == [i \in 1..(WhyMaxLen + 1) |-> IF i > WhyMaxLen THEN "y" ELSE "x"]

Reasons ==
    { Absent, Null, Str(<< >>), Str(ShortReason), Str(Reason200), Str(Reason201),
      Num(7), Arr(<<Str(<<"a">>), Null, Str(<<"b">>)>>), BadObject }

ObjectDocs ==
    { MkDoc(c, k, Str(ShortReason)) :
        c \in Classifications, k \in {Num(69), Num(70), Num(100)} }
    \cup { MkDoc(Str(AIGenerated), k, Str(ShortReason)) : k \in ConfidenceRaws }
    \cup { MkDoc(c, k, r) :
            c \in {Str(AIGenerated), Str(RealPhotograph)},
            k \in {Num(69), Num(70)},
            r \in Reasons }

ScalarDocs == { Null, Num(0), Num(5), Bool(TRUE), Str(<<"o","k">>), Arr(<< >>) }

Prose == <<"H","e","r","e"," ","i","s"," ","m","y"," ","a","n","a","l","y",
     "s","i","s",":"," ">>
BracedProse == <<"{","n","o","t","e","}"," ">>

\* texts the model can answer with
Texts ==
    { Text(<< >>, d, << >>) : d \in ObjectDocs \cup ScalarDocs }
    \cup { Text(Prose, d, <<".">>) : d \in {MkDoc(Str(Manipulated), Num(85), Str(ShortReason)), Num(5)} }
    \cup { Text(<<"\n">>, MkDoc(Str(Manipulated), Num(85), Absent), <<" ">>),
           Text(BracedProse, MkDoc(Str(AIGenerated), Num(85), Absent), << >>),
           Text(<<"I"," ","c","a","n","n","o","t"," ","h","e","l","p"," ","w","i",
     "t","h"," ","t","h","a","t",".">>, NoDoc, << >>),
           Text(BracedProse, NoDoc, << >>),
           Text(<<" ">>, NoDoc, << >>),
           Text(<< >>, NoDoc, << >>) }

SampleText == Text(<< >>, MkDoc(Str(RealPhotograph), Num(92), Str(ShortReason)), << >>)

OutputBlock(x) == Obj([type |-> Str(OutputTextType), text |-> x])
Message(blocks) == Obj([type |-> Str(<<"m","e","s","s","a","g","e">>), content |-> Arr(blocks)])

\* answers of openai.responses.create
ResponsesApiAnswers ==
    { Obj([output_text |-> x]) : x \in Texts }
    \cup { Obj([output |-> Arr(<<Message(<<OutputBlock(x)>>)>>)]) :
            x \in {SampleText, Text(<<" ">>, NoDoc, << >>)} }
    \cup { Obj([output_text |-> Text(<<" ">>, NoDoc, << >>),
                output |-> Arr(<<Obj([type |-> Str(<<"r","e","a","s","o","n","i","n","g">>)]),
                                 Message(<<Obj([type |-> Str(<<"r","e","f","u","s","a","l">>)]),
                                           OutputBlock(Num(3)),
                                           OutputBlock(SampleText)>>)>>)]),
           Obj([output |-> Arr(<< >>)]),
           Obj([output_text |-> Null]),
           Null }

\* answers of openai.chat.completions.create
ChatAnswers ==
    { Obj([choices |-> Arr(<<Obj([message |-> Obj([content |-> x])])>>)]) :
        x \in Texts \cup {Null} }
    \cup { Obj([choices |-> Arr(<< >>)]), Null }

\* rejections of the call: an API error with its HTTP status, a timeout
CallErrors ==
    { Thrown(Str(<<"I","n","c","o","r","r","e","c","t"," ","A","P","I"," ","k","e",
     "y"," ","p","r","o","v","i","d","e","d">>), Num(401)),
      Thrown(Str(<<"R","e","q","u","e","s","t"," ","t","i","m","e","d"," ","o","u",
     "t",".">>), Undefined),
      Thrown(Str(<< >>), Num(500)) }

\* readFileSync failing
ReadError == Thrown(Str(<<"E","I","O",":"," ","i","/","o"," ","e","r","r","o","r",","," ",
     "r","e","a","d">>), Undefined)
\* unlinkSync failing
UnlinkError == Thrown(Str(<<"E","P","E","R","M",":"," ","o","p","e","r","a","t","i","o","n",
     " ","n","o","t"," ","p","e","r","m","i","t","t","e","d",","," ",
     "u","n","l","i","n","k">>), Undefined)

(***************************************************************************)
(* The server.                                                             *)
(***************************************************************************)
NoRequest == [kind |-> "none"]

\* the per-request state before a request arrives
Fresh ==
    /\ pc = "idle"
    /\ reqIn = NoRequest
    /\ reqFile = Undefined
    /\ filePath = Undefined
    /\ startedAt = Undefined
    /\ request_id = Undefined
    /\ parsed = Undefined
    /\ confidence = Undefined
    /\ caught = Undefined
    /\ storedPath = Undefined
    /\ arrivedAt = 0
    /\ calls = 0
    /\ sent = << >>
    /\ replies = << >>
    /\ escaped = FALSE

Init ==
    /\ env \in DetectEnvs
    /\ sdkResponses \in BOOLEAN
    /\ openaiClient = Null
    /\ fsFiles = {}
    /\ now = 0
    /\ reqCount = 0
    /\ healthLog = {}
    /\ restarts = 0
    /\ Fresh

Config == <<env, sdkResponses>>
Locals == <<filePath, startedAt, request_id>>
Results == <<parsed, confidence, caught>>

\* a client sends a POST /detect request; the server handles one at a time
Arrive ==
    /\ pc \in {"idle", "done"}
    /\ reqCount < MaxRequests
    /\ \E in \in RequestInputs : reqIn' = in
    /\ reqCount' = reqCount + 1
    /\ pc' = "upload"
    /\ arrivedAt' = now
    /\ reqFile' = Undefined
    /\ filePath' = Undefined
    /\ startedAt' = Undefined
    /\ request_id' = Undefined
    /\ parsed' = Undefined
    /\ confidence' = Undefined
    /\ caught' = Undefined
    /\ storedPath' = Undefined
    /\ calls' = 0
    /\ sent' = << >>
    /\ replies' = << >>
    /\ escaped' = FALSE
    /\ UNCHANGED <<Config, openaiClient, fsFiles, now, healthLog, restarts>>

\* upload.single("image") cannot parse the body, or finds a file under another
\* field name: it removes what it stored and passes the error to next()
UploadRejects ==
    /\ pc = "upload"
    /\ reqIn.kind = "malformed"
    /\ \E d \in 0..MaxDelay : now' = now + d
    /\ replies' = Append(replies, DefaultErrorReply)
    /\ pc' = "done"
    /\ UNCHANGED <<Config, openaiClient, fsFiles, reqCount, reqIn, reqFile, Locals,
                   Results, storedPath, arrivedAt, calls, sent, escaped, healthLog, restarts>>

\* upload.single("image") finds no file field: req.file stays undefined
UploadNoFile ==
    /\ pc = "upload"
    /\ reqIn.kind = "nofile"
    /\ \E d \in 0..MaxDelay : now' = now + d
    /\ pc' = "handler"
    /\ UNCHANGED <<Config, openaiClient, fsFiles, reqCount, reqIn, reqFile, Locals,
                   Results, storedPath, arrivedAt, calls, sent, replies, escaped, healthLog, restarts>>

\* upload.single("image") stores the file under uploads/; multer({ dest }) is
\* given no limits, so a file of any size is stored
UploadStores ==
    /\ pc = "upload"
    /\ reqIn.kind = "file"
    /\ \E d \in 0..MaxDelay : now' = now + d
    /\ storedPath' = Str(UploadPath(reqCount))
    /\ fsFiles' = fsFiles \cup {UploadPath(reqCount)}
    /\ reqFile' = Obj([path |-> Str(UploadPath(reqCount)),
                       mimetype |-> Str(reqIn.mimetype),
                       size |-> Num(reqIn.size)])
    /\ pc' = "handler"
    /\ UNCHANGED <<Config, openaiClient, reqCount, reqIn, Locals, Results, arrivedAt,
                   calls, sent, replies, escaped, healthLog, restarts>>

\* lines 98-99, run by every entry into the handler
Enter(rand) ==
    /\ pc = "handler"
    /\ startedAt' = Num(now)
    /\ request_id' = RequestId(now, rand)

\* (req.file.mimetype || "").toLowerCase()
MimeType(file) == ToLowerCase(Or(Get(file, "mimetype"), Str(<< >>)).s)

\* lines 102-110
ReplyNoFile ==
    /\ \E rand \in RandomHex : Enter(rand)
    /\ ~Truthy(reqFile)
    /\ replies' = Append(replies,
            Reply(400, Envelope(NotDetectable, Num(0), Str(NoImageProvided),
                                request_id', now - startedAt'.n)))
    /\ pc' = "done"
    /\ UNCHANGED <<Config, openaiClient, fsFiles, now, reqCount, reqIn, reqFile,
                   filePath, Results, storedPath, arrivedAt, calls, sent, escaped, healthLog,
                   restarts>>

\* lines 112-121
ReplyMissingKey ==
    /\ \E rand \in RandomHex : Enter(rand)
    /\ Truthy(reqFile)
    /\ ~Truthy(getOpenAI(env, openaiClient))
    /\ openaiClient' = ClientAfter(env, openaiClient)
    /\ replies' = Append(replies,
            Reply(500, Envelope(NotDetectable, Num(0), Str(MissingKeyWhy),
                                request_id', now - startedAt'.n)))
    /\ pc' = "done"
    /\ UNCHANGED <<Config, fsFiles, now, reqCount, reqIn, reqFile, filePath,
                   Results, storedPath, arrivedAt, calls, sent, escaped, healthLog,
                   restarts>>

\* lines 123-138
ReplyUnsupported ==
    /\ \E rand \in RandomHex : Enter(rand)
    /\ Truthy(reqFile)
    /\ Truthy(getOpenAI(env, openaiClient))
    /\ MimeType(reqFile) \notin allowed
    /\ openaiClient' = ClientAfter(env, openaiClient)
    /\ replies' = Append(replies,
            Reply(400, Envelope(NotDetectable, Num(0),
                                Str(UnsupportedPrefix
                                    \o ToStringJS(Get(reqFile, "mimetype")).s
                                    \o UnsupportedSuffix),
                                request_id', now - startedAt'.n)))
    /\ pc' = "done"
    /\ UNCHANGED <<Config, fsFiles, now, reqCount, reqIn, reqFile, filePath,
                   Results, storedPath, arrivedAt, calls, sent, escaped, healthLog,
                   restarts>>

\* the three checks passed: line 140 runs
Accepted ==
    /\ Truthy(reqFile)
    /\ Truthy(getOpenAI(env, openaiClient))
    /\ MimeType(reqFile) \in allowed
    /\ openaiClient' = ClientAfter(env, openaiClient)
    /\ filePath' = Get(reqFile, "path")

\* line 141: fs.readFileSync throws, and the catch block runs
ReadFails ==
    /\ \E rand \in RandomHex : Enter(rand)
    /\ Accepted
    /\ now' = now
    /\ Catch(ReadError, filePath', fsFiles, request_id', startedAt'.n)
    /\ UNCHANGED <<Config, reqCount, reqIn, reqFile, parsed, confidence, storedPath,
                   arrivedAt, calls, sent, healthLog, restarts>>

\* lines 141-169 or 189: the file is read and encoded and the request is sent;
\* the handler awaits the answer
CallInference ==
    /\ \E rand \in RandomHex : Enter(rand)
    /\ Accepted
    /\ filePath'.s \in fsFiles
    /\ calls' = calls + 1
    /\ sent' = Append(sent, [api |-> IF sdkResponses THEN "responses" ELSE "chat",
                             mimeType |-> MimeType(reqFile),
                             size |-> Get(reqFile, "size").n,
                             apiKey |-> getOpenAI(env, openaiClient).o.apiKey])
    /\ pc' = "await"
    /\ UNCHANGED <<Config, fsFiles, now, reqCount, reqIn, reqFile, Results,
                   storedPath, arrivedAt, replies, escaped, healthLog, restarts>>

\* the awaited call rejects: the catch block runs
InferenceRejects ==
    /\ pc = "await"
    /\ \E d \in 0..MaxDelay : now' = now + d
    /\ \E err \in CallErrors : Catch(err, filePath, fsFiles, request_id, startedAt.n)
    /\ UNCHANGED <<Config, openaiClient, reqCount, reqIn, reqFile, Locals, parsed,
                   confidence, storedPath, arrivedAt, calls, sent, healthLog, restarts>>

\* lines 222-236 once parsed, confidence and result are computed: unlinkSync,
\* then the arguments of res.json, then the reply
Finish(p, c) ==
    LET exists == Truthy(filePath) /\ filePath.s \in fsFiles
        after == IF exists THEN fsFiles \ {filePath.s} ELSE fsFiles
        why == WhyOf(p, c)
    IN \/ /\ exists
          /\ Catch(UnlinkError, filePath, fsFiles, request_id, startedAt.n)
       \/ /\ IsThrown(why)
          /\ Catch(why, filePath, after, request_id, startedAt.n)
       \/ /\ ~IsThrown(why)
          /\ fsFiles' = after
          /\ replies' = Append(replies,
                Reply(200, Envelope(MapResult(p, c), c, why,
                                    request_id, now' - startedAt.n)))
          /\ escaped' = FALSE
          /\ caught' = caught
          /\ pc' = "done"

\* the awaited call resolves with an answer: lines 183-236
InferenceResolves ==
    /\ pc = "await"
    /\ \E d \in 0..MaxDelay : now' = now + d
    /\ \E resp \in (IF sdkResponses THEN ResponsesApiAnswers ELSE ChatAnswers) :
        LET p == Extract(resp, sdkResponses)
            c == IF IsThrown(p) THEN p ELSE Coerce(p)
        IN /\ parsed' = IF IsThrown(p) THEN Undefined ELSE p
           /\ confidence' = IF IsThrown(c) THEN Undefined ELSE c
           /\ IF IsThrown(c)
              THEN Catch(c, filePath, fsFiles, request_id, startedAt.n)
              ELSE Finish(p, c)
    /\ UNCHANGED <<Config, openaiClient, reqCount, reqIn, reqFile, Locals, storedPath,
                   arrivedAt, calls, sent, healthLog, restarts>>

Next ==
    \/ Arrive
    \/ UploadRejects
    \/ UploadNoFile
    \/ UploadStores
    \/ ReplyNoFile
    \/ ReplyMissingKey
    \/ ReplyUnsupported
    \/ ReadFails
    \/ CallInference
    \/ InferenceRejects
    \/ InferenceResolves

Spec == Init /\ [][Next]_vars

(***************************************************************************)
(* GET /health, observed under the configurations of successive            *)
(* deployments of the same server.                                         *)
(***************************************************************************)
InitHealth ==
    /\ env \in HealthEnvs
    /\ sdkResponses \in BOOLEAN
    /\ openaiClient = Null
    /\ fsFiles \in {{}, {EnvLocal}}
    /\ now = 0
    /\ reqCount = 0
    /\ healthLog = {}
    /\ restarts = 0
    /\ Fresh

PerRequest ==
    <<pc, reqIn, reqFile, Locals, Results, storedPath, arrivedAt, calls, sent, replies,
      escaped>>

\* app.get("/health")
Health ==
    /\ healthLog' = healthLog \cup {[env |-> env, body |-> Obj(HealthBody(env, fsFiles))]}
    /\ healthLog' # healthLog
    /\ UNCHANGED <<Config, openaiClient, fsFiles, now, reqCount, PerRequest, restarts>>

\* the process is stopped and started again with other environment variables;
\* lines 7-10 and 29 run again
Restart ==
    /\ pc = "idle"
    /\ restarts < MaxRestarts
    /\ restarts' = restarts + 1
    /\ env' \in HealthEnvs
    /\ openaiClient' = Null
    /\ UNCHANGED <<sdkResponses, fsFiles, now, reqCount, PerRequest, healthLog>>

NextHealth == Health \/ Restart

SpecHealth == InitHealth /\ [][NextHealth]_vars

(***************************************************************************)
(* Properties.                                                             *)
(***************************************************************************)
\* the handler has finished with the request in flight
Terminal == pc \in {"done", "escaped"}

EnvelopeFields == {"result", "confidence", "why", "request_id", "processing_ms"}

\* the debug flag as the configuration states it
FlagEnabled == env.DEBUG_VERO = Str(<<"1">>)

\* C1: once a request whose upload was stored has been replied to, the stored
\* file no longer exists, whatever the status of the reply.
C1_TempFileRemoved ==
    (Len(replies) > 0 /\ storedPath # Undefined) => storedPath.s \notin fsFiles

\* C2: a request with no file, or with a file whose media type (lower-cased) is
\* outside the allow-list, is replied 400 with the inconclusive label and
\* confidence 0, under every configuration; a request whose media type is in
\* the allow-list is never replied 400.
C2_ValidationReplies400 ==
    Terminal =>
        /\ (reqIn.kind = "nofile"
            \/ (reqIn.kind = "file" /\ ToLowerCase(reqIn.mimetype) \notin allowed))
           => /\ Len(replies) = 1
              /\ replies[1].status = 400
              /\ replies[1].body.result = Str(NotDetectable)
              /\ replies[1].body.confidence = Num(0)
        /\ (reqIn.kind = "file" /\ ToLowerCase(reqIn.mimetype) \in allowed)
           => \A i \in 1..Len(replies) : replies[i].status # 400

\* C3: when the handling of a request ends, the request has exactly one reply
\* and no exception has escaped the handler; no request gets two replies.
C3_ExactlyOneReply ==
    /\ Len(replies) <= 1
    /\ Terminal => (Len(replies) = 1 /\ ~escaped)

\* C4: every reply carries the request_id generated for the request and a
\* non-negative processing_ms, replies to upload-layer failures included.
C4_ReplyHasIdAndTime ==
    \A i \in 1..Len(replies) :
        LET b == replies[i].body
        IN /\ "request_id" \in DOMAIN b
           /\ request_id # Undefined
           /\ b.request_id = request_id
           /\ "processing_ms" \in DOMAIN b
           /\ b.processing_ms.n >= 0

\* the label the reference table gives the parsed value and its confidence
C5_Label ==
    IF confidence.n < 70 THEN NotDetectable
    ELSE CASE Get(parsed, "classification") = Str(AIGenerated) -> AIDetected
           [] Get(parsed, "classification") = Str(Manipulated) -> ManipulationDetected
           [] Get(parsed, "classification") = Str(RealPhotograph) -> Verified
           [] OTHER -> NotDetectable

\* why agrees with the reference table: the fixed message under 70; else the
\* reason's first 200 characters, the fallback when the reason is absent or
\* empty, and any text for a reason that is no string
C5_WhyOk(why) ==
    LET r == Get(parsed, "reason")
    IN IF confidence.n < 70 THEN why = Str(LowConfidenceWhy)
       ELSE CASE r.t = "string" /\ Len(r.s) > 0 ->
                    why = Str(SubSeq(r.s, 1, Min(Len(r.s), 200)))
              [] r.t \in {"undefined", "null", "string"} -> why = Str(FallbackReason)
              [] OTHER -> why.t = "string"

\* C5: once the confidence is coerced, the mapping does not throw (the catch
\* block is entered for nothing but a failed unlink), and a 200 reply carries
\* the label and the why of the reference table.
C5_VerdictTable ==
    (Terminal /\ confidence # Undefined) =>
        /\ caught \in {Undefined, UnlinkError}
        /\ \A i \in 1..Len(replies) :
            replies[i].status = 200 =>
                /\ replies[i].body.result = Str(C5_Label)
                /\ replies[i].body.result \in
                     {Str(NotDetectable), Str(AIDetected),
                      Str(ManipulationDetected), Str(Verified)}
                /\ C5_WhyOk(replies[i].body.why)

\* C6: coercing confidence_raw never throws; a missing or negative
\* confidence_raw coerces to 0; the confidence of a 200 reply is a number in
\* 0..100.
C6_ConfidenceCoercion ==
    /\ (Terminal /\ parsed # Undefined) => confidence # Undefined
    /\ \A i \in 1..Len(replies) :
        replies[i].status = 200 =>
            LET raw == Get(parsed, "confidence_raw")
                c == replies[i].body.confidence
            IN /\ c.t = "number"
               /\ c.n >= 0 /\ c.n <= 100
               /\ (raw.t = "undefined" \/ (raw.t = "number" /\ raw.n < 0)) => c.n = 0

\* C7: a 500 reply has a debug field only if the debug flag is enabled; with
\* the flag disabled, the reply to a failure caught by the handler is the bare
\* envelope with the generic message, and neither the error's message nor its
\* status is the value of any field.
C7_DebugOnlyWhenEnabled ==
    \A i \in 1..Len(replies) :
        replies[i].status = 500 =>
            LET b == replies[i].body
            IN /\ "debug" \in DOMAIN b => FlagEnabled
               /\ (caught # Undefined /\ ~FlagEnabled) =>
                    /\ DOMAIN b = EnvelopeFields
                    /\ b.why = Str(InternalErrorWhy)
                    /\ b.result = Str(NotDetectable)
                    /\ b.confidence = Num(0)
                    /\ \A f \in DOMAIN b :
                        /\ Truthy(caught.message) => b[f] # caught.message
                        /\ Truthy(caught.status) => b[f] # caught.status

\* C7's case: an API error with a message and a status was caught with the
\* flag set to a value other than "1", and the 500 reply was sent
C7_Witness ==
    /\ pc = "done"
    /\ env.DEBUG_VERO = Str(<<"0">>)
    /\ caught \in CallErrors
    /\ caught.status = Num(401)
    /\ Len(replies) = 1
    /\ replies[1].status = 500

\* C8: any two /health replies under configurations whose credentials are
\* both non-empty and whose debug flags agree are the same reply.
C8_HealthHidesKeyValue ==
    \A o1, o2 \in healthLog :
        (/\ getApiKey(o1.env) # << >>
         /\ getApiKey(o2.env) # << >>
         /\ (o1.env.DEBUG_VERO = Str(<<"1">>)) = (o2.env.DEBUG_VERO = Str(<<"1">>)))
        => o1.body = o2.body

\* C9: an upload above the size cap (12 MB, the upper end of the stated cap) is
\* never read, encoded or sent to the inference API.
C9_OversizeRejected ==
    (reqIn.kind = "file" /\ reqIn.size > 12) =>
        (filePath = Undefined /\ calls = 0 /\ sent = << >>)

\* C10: at most one external call per request, made only with a file, a
\* credential and an allow-listed type; a 400 reply or a missing-credential 500
\* reply means no call was made; a failed call ends in a 500 reply.
C10_SingleCallAfterChecks ==
    /\ calls <= 1
    /\ Len(sent) = calls
    /\ calls = 1 =>
        /\ reqIn.kind = "file"
        /\ getApiKey(env) # << >>
        /\ ToLowerCase(reqIn.mimetype) \in allowed
    /\ \A i \in 1..Len(replies) :
        (\/ replies[i].status = 400
         \/ /\ replies[i].status = 500
            /\ "why" \in DOMAIN replies[i].body
            /\ replies[i].body.why = Str(MissingKeyWhy))
        => calls = 0
    /\ (Terminal /\ caught \in CallErrors) =>
        (Len(replies) = 1 /\ replies[1].status = 500)

====
